---- MODULE Spec2Model ----
(***************************************************************************)
(* a-h/jsonapi: the token-caching authentication middleware                *)
(* (AuthMiddleware) and the request dispatch of the JSON API client        *)
(* (newConfig, Raw, Get, Post, Put).                                       *)
(*                                                                         *)
(* Go strings are modelled as sequences of one-character strings, byte     *)
(* slices as sequences of integers 0..255, and time.Time values as Unix    *)
(* seconds.                                                                *)
(***************************************************************************)
EXTENDS Integers, Sequences, FiniteSets, TLC

(***************************************************************************)
(* Strings and bytes                                                       *)
(***************************************************************************)

\* The printable ASCII characters, in code order from 32 (space) to 126 (~).
\* The back quote (96) cannot be written in a string of this language and
\* is named instead.
Printable ==
    <<" ", "!", "\"", "#", "$", "%", "&", "'", "(", ")", "*", "+", ",", "-", ".", "/",
      "0", "1", "2", "3", "4", "5", "6", "7", "8", "9", ":", ";", "<", "=", ">", "?",
      "@", "A", "B", "C", "D", "E", "F", "G", "H", "I", "J", "K", "L", "M", "N", "O",
      "P", "Q", "R", "S", "T", "U", "V", "W", "X", "Y", "Z", "[", "\\", "]", "^", "_",
      "<bq>", "a", "b", "c", "d", "e", "f", "g", "h", "i", "j", "k", "l", "m", "n", "o",
      "p", "q", "r", "s", "t", "u", "v", "w", "x", "y", "z", "{", "|", "}", "~">>

\* The position of character c in the sequence tbl (0 when it is not there).
IndexOf(tbl, c) ==
    IF \E i \in 1..Len(tbl) : tbl[i] = c
    THEN CHOOSE i \in 1..Len(tbl) : tbl[i] = c
    ELSE 0

\* []byte(s): the bytes of a string of printable ASCII characters.
Bytes(s) == [i \in 1..Len(s) |-> 31 + IndexOf(Printable, s[i])]

\* One byte read as a character.  Tab, line feed and carriage return keep
\* their identity (JSON white space); the other bytes outside the printable
\* range are told apart only by their class, which is all the JSON scanner
\* looks at: control bytes (below 0x20) and bytes from 0x7f up.
Chr(b) ==
    IF b >= 32 /\ b <= 126 THEN Printable[b - 31]
    ELSE IF b = 9 THEN "\t"
    ELSE IF b = 10 THEN "\n"
    ELSE IF b = 13 THEN "\r"
    ELSE IF b < 32 THEN "<ctl>"
    ELSE "<hi>"

\* string(b)
String(b) == [i \in 1..Len(b) |-> Chr(b[i])]

\* strings.HasPrefix
HasPrefix(s, prefix) ==
    Len(s) >= Len(prefix) /\ SubSeq(s, 1, Len(prefix)) = prefix

\* A prefix that is never removed.
TrimPrefixKeep(s, prefix) == s

\* strings.TrimPrefix
TrimPrefix(s, prefix) ==
    IF HasPrefix(s, prefix) THEN SubSeq(s, Len(prefix) + 1, Len(s)) ELSE s

\* strings.Split(s, sep) for a one-character separator: the substrings
\* between the separators, n + 1 of them when sep occurs n times.
RECURSIVE Split(_, _)
Split(s, sep) ==
    IF \E i \in 1..Len(s) : s[i] = sep
    THEN LET i == CHOOSE k \in 1..Len(s) : s[k] = sep /\ \A j \in 1..(k - 1) : s[j] # sep
         IN  <<SubSeq(s, 1, i - 1)>> \o Split(SubSeq(s, i + 1, Len(s)), sep)
    ELSE <<s>>

(***************************************************************************)
(* encoding/base64: RawURLEncoding (URL-safe alphabet, no padding)         *)
(***************************************************************************)

encodeURL ==
    <<"A", "B", "C", "D", "E", "F", "G", "H", "I", "J", "K", "L", "M", "N", "O", "P",
      "Q", "R", "S", "T", "U", "V", "W", "X", "Y", "Z", "a", "b", "c", "d", "e", "f",
      "g", "h", "i", "j", "k", "l", "m", "n", "o", "p", "q", "r", "s", "t", "u", "v",
      "w", "x", "y", "z", "0", "1", "2", "3", "4", "5", "6", "7", "8", "9", "-", "_">>

\* The bytes of a sequence of 6-bit values: three bytes for each full
\* quantum of four values, one byte for a final two, two bytes for a final
\* three (the bits left over are dropped: the encoding is not Strict).
RECURSIVE DecodeQuanta(_)
DecodeQuanta(v) ==
    IF Len(v) >= 4
    THEN LET n == v[1] * 262144 + v[2] * 4096 + v[3] * 64 + v[4]
         IN  <<n \div 65536, (n \div 256) % 256, n % 256>>
                 \o DecodeQuanta(SubSeq(v, 5, Len(v)))
    ELSE IF Len(v) = 3
    THEN LET n == v[1] * 4096 + v[2] * 64 + v[3]
         IN  <<n \div 1024, (n \div 4) % 256>>
    ELSE IF Len(v) = 2
    THEN <<(v[1] * 64 + v[2]) \div 16>>
    ELSE <<>>

\* base64.RawURLEncoding.DecodeString: carriage returns and line feeds are
\* skipped; a character outside the alphabet (the padding character
\* included) or a final quantum of a single character is corrupt input.
DecodeString(s) ==
    LET kept == SelectSeq(s, LAMBDA c : c # "\r" /\ c # "\n")
        vals == [i \in 1..Len(kept) |-> IndexOf(encodeURL, kept[i]) - 1]
    IN  IF (\E i \in 1..Len(vals) : vals[i] < 0) \/ Len(vals) % 4 = 1
        THEN [err |-> TRUE, bytes |-> <<>>]
        ELSE [err |-> FALSE, bytes |-> DecodeQuanta(vals)]

\* The 6-bit values of a byte sequence: four for each three bytes, two for
\* a final byte, three for a final two bytes.
RECURSIVE EncodeQuanta(_)
EncodeQuanta(b) ==
    IF Len(b) >= 3
    THEN LET n == b[1] * 65536 + b[2] * 256 + b[3]
         IN  <<n \div 262144, (n \div 4096) % 64, (n \div 64) % 64, n % 64>>
                 \o EncodeQuanta(SubSeq(b, 4, Len(b)))
    ELSE IF Len(b) = 2
    THEN LET n == (b[1] * 256 + b[2]) * 4
         IN  <<n \div 4096, (n \div 64) % 64, n % 64>>
    ELSE IF Len(b) = 1
    THEN <<(b[1] * 16) \div 64, (b[1] * 16) % 64>>
    ELSE <<>>

\* base64.RawURLEncoding.EncodeToString
EncodeToString(b) ==
    LET v == EncodeQuanta(b) IN [i \in 1..Len(v) |-> encodeURL[v[i] + 1]]

(***************************************************************************)
(* encoding/json: the scanner (is the text one valid JSON value?) and the  *)
(* decoding of a value into a jwtClaims struct.  A parsed value is a       *)
(* record [kind, lit, members]: lit is the text of a number or the         *)
(* unquoted text of a string, members the key/value pairs of an object.    *)
(***************************************************************************)

Digits == <<"0", "1", "2", "3", "4", "5", "6", "7", "8", "9">>

HexDigits ==
    <<"0", "1", "2", "3", "4", "5", "6", "7", "8", "9", "a", "b", "c", "d", "e", "f">>

UpperCase ==
    <<"A", "B", "C", "D", "E", "F", "G", "H", "I", "J", "K", "L", "M",
      "N", "O", "P", "Q", "R", "S", "T", "U", "V", "W", "X", "Y", "Z">>

LowerCase ==
    <<"a", "b", "c", "d", "e", "f", "g", "h", "i", "j", "k", "l", "m",
      "n", "o", "p", "q", "r", "s", "t", "u", "v", "w", "x", "y", "z">>

IsSpace(ch) == ch \in {" ", "\t", "\r", "\n"}

IsDigit(ch) == IndexOf(Digits, ch) > 0

ToLower(ch) == IF IndexOf(UpperCase, ch) > 0 THEN LowerCase[IndexOf(UpperCase, ch)] ELSE ch

IsHex(ch) == IndexOf(HexDigits, ToLower(ch)) > 0

\* The character at position i, or an end marker past the end of the text.
At(c, i) == IF i >= 1 /\ i <= Len(c) THEN c[i] ELSE "<eof>"

JSONValue(kind, lit, members) == [kind |-> kind, lit |-> lit, members |-> members]

\* A scan that failed, and one that read value val and stopped before next.
ScanFail == [ok |-> FALSE, next |-> 0, val |-> JSONValue("invalid", <<>>, <<>>)]

ScanOk(next, val) == [ok |-> TRUE, next |-> next, val |-> val]

RECURSIVE SkipSpace(_, _)
SkipSpace(c, i) == IF IsSpace(At(c, i)) THEN SkipSpace(c, i + 1) ELSE i

RECURSIVE SkipDigits(_, _)
SkipDigits(c, i) == IF IsDigit(At(c, i)) THEN SkipDigits(c, i + 1) ELSE i

\* A number: -? (0 | [1-9][0-9]*) (. [0-9]+)? ([eE] [+-]? [0-9]+)?
\* Each part gives the position after it, or 0 when the text is malformed.
ScanNumber(c, i) ==
    LET int  == IF At(c, i) = "-" THEN i + 1 ELSE i
        frac == IF At(c, int) = "0" THEN int + 1
                ELSE IF IsDigit(At(c, int)) THEN SkipDigits(c, int)
                ELSE 0
        exp  == IF frac = 0 THEN 0
                ELSE IF At(c, frac) # "." THEN frac
                ELSE IF IsDigit(At(c, frac + 1)) THEN SkipDigits(c, frac + 1)
                ELSE 0
        sign == IF At(c, exp + 1) \in {"+", "-"} THEN exp + 2 ELSE exp + 1
        end  == IF exp = 0 THEN 0
                ELSE IF At(c, exp) \notin {"e", "E"} THEN exp
                ELSE IF IsDigit(At(c, sign)) THEN SkipDigits(c, sign)
                ELSE 0
    IN  IF end = 0 THEN ScanFail
        ELSE ScanOk(end, JSONValue("number", SubSeq(c, i, end - 1), <<>>))

\* The character a four-digit \u escape stands for (ASCII only; the others
\* are told apart from ASCII but not from each other).
Unicode(h) ==
    LET v(k) == IndexOf(HexDigits, ToLower(h[k])) - 1
        n == ((v(1) * 16 + v(2)) * 16 + v(3)) * 16 + v(4)
    IN  IF n < 128 THEN Chr(n) ELSE "<hi>"

\* The characters one-letter escapes stand for.
Unescape(ch) ==
    CASE ch = "b" -> "<ctl>"
      [] ch = "f" -> "<ctl>"
      [] ch = "n" -> "\n"
      [] ch = "r" -> "\r"
      [] ch = "t" -> "\t"
      [] OTHER -> ch

\* A string, from the character after its opening quote: acc is its text
\* read so far.  Control characters must be escaped.
RECURSIVE ScanString(_, _, _)
ScanString(c, i, acc) ==
    LET ch == At(c, i) IN
    IF ch = "\"" THEN ScanOk(i + 1, JSONValue("string", acc, <<>>))
    ELSE IF ch \in {"<eof>", "<ctl>", "\t", "\n", "\r"} THEN ScanFail
    ELSE IF ch # "\\" THEN ScanString(c, i + 1, Append(acc, ch))
    ELSE IF At(c, i + 1) \in {"\"", "\\", "/", "b", "f", "n", "r", "t"}
    THEN ScanString(c, i + 2, Append(acc, Unescape(At(c, i + 1))))
    ELSE IF At(c, i + 1) = "u" /\ \A k \in 2..5 : IsHex(At(c, i + k))
    THEN ScanString(c, i + 6, Append(acc, Unicode(SubSeq(c, i + 2, i + 5))))
    ELSE ScanFail

\* The literals true, false and null.
ScanLiteral(c, i, word, kind) ==
    IF i + Len(word) - 1 <= Len(c) /\ SubSeq(c, i, i + Len(word) - 1) = word
    THEN ScanOk(i + Len(word), JSONValue(kind, <<>>, <<>>))
    ELSE ScanFail

RECURSIVE ScanValue(_, _)
RECURSIVE ScanMembers(_, _, _)
RECURSIVE ScanElements(_, _)

\* One value starting at position i (white space already skipped).
ScanValue(c, i) ==
    LET ch == At(c, i) IN
    IF ch = "{"
    THEN IF At(c, SkipSpace(c, i + 1)) = "}"
         THEN ScanOk(SkipSpace(c, i + 1) + 1, JSONValue("object", <<>>, <<>>))
         ELSE ScanMembers(c, SkipSpace(c, i + 1), <<>>)
    ELSE IF ch = "["
    THEN IF At(c, SkipSpace(c, i + 1)) = "]"
         THEN ScanOk(SkipSpace(c, i + 1) + 1, JSONValue("array", <<>>, <<>>))
         ELSE ScanElements(c, SkipSpace(c, i + 1))
    ELSE IF ch = "\"" THEN ScanString(c, i + 1, <<>>)
    ELSE IF ch = "-" \/ IsDigit(ch) THEN ScanNumber(c, i)
    ELSE IF ch = "t" THEN ScanLiteral(c, i, <<"t", "r", "u", "e">>, "bool")
    ELSE IF ch = "f" THEN ScanLiteral(c, i, <<"f", "a", "l", "s", "e">>, "bool")
    ELSE IF ch = "n" THEN ScanLiteral(c, i, <<"n", "u", "l", "l">>, "null")
    ELSE ScanFail

\* The members of an object from the key at position i: "key" : value,
\* then a comma and the next member, or the closing brace.
ScanMembers(c, i, acc) ==
    LET AfterValue(key, value) ==
            LET end == SkipSpace(c, value.next)
                all == Append(acc, [key |-> key.val.lit, val |-> value.val])
            IN  IF ~value.ok THEN ScanFail
                ELSE IF At(c, end) = "," THEN ScanMembers(c, SkipSpace(c, end + 1), all)
                ELSE IF At(c, end) = "}"
                THEN ScanOk(end + 1, JSONValue("object", <<>>, all))
                ELSE ScanFail
        AfterKey(key) ==
            LET colon == SkipSpace(c, key.next)
            IN  AfterValue(key, IF key.ok /\ At(c, colon) = ":"
                                THEN ScanValue(c, SkipSpace(c, colon + 1))
                                ELSE ScanFail)
    IN  AfterKey(IF At(c, i) = "\"" THEN ScanString(c, i + 1, <<>>) ELSE ScanFail)

\* The elements of an array from the value at position i.
ScanElements(c, i) ==
    LET AfterElement(value) ==
            LET end == SkipSpace(c, value.next)
            IN  IF ~value.ok THEN ScanFail
                ELSE IF At(c, end) = "," THEN ScanElements(c, SkipSpace(c, end + 1))
                ELSE IF At(c, end) = "]"
                THEN ScanOk(end + 1, JSONValue("array", <<>>, <<>>))
                ELSE ScanFail
    IN  AfterElement(ScanValue(c, i))

\* json.checkValid and the parse of the document: one value, with white
\* space around it and nothing else.
ScanDocument(c) ==
    LET AtEnd(value) ==
            IF value.ok /\ SkipSpace(c, value.next) = Len(c) + 1 THEN value ELSE ScanFail
    IN  AtEnd(ScanValue(c, SkipSpace(c, 1)))

\* strconv.ParseInt(lit, 10, 64) of a JSON number: an optional minus sign
\* and digits; a fraction or an exponent is a syntax error.  (The numbers of
\* the model stay far inside the 64 bits of an int.)
RECURSIVE ParseDigits(_, _)
ParseDigits(d, acc) ==
    IF Len(d) = 0 THEN acc
    ELSE ParseDigits(Tail(d), acc * 10 + IndexOf(Digits, Head(d)) - 1)

ParseInt(lit) ==
    LET neg == At(lit, 1) = "-"
        d   == IF neg THEN Tail(lit) ELSE lit
    IN  IF Len(d) = 0 \/ \E k \in 1..Len(d) : ~IsDigit(d[k])
        THEN [err |-> TRUE, n |-> 0]
        ELSE [err |-> FALSE, n |-> IF neg THEN 0 - ParseDigits(d, 0) ELSE ParseDigits(d, 0)]

\* The object's members decoded in order into claims = [err, Exp]: a key
\* that is "exp" in any letter case names the Exp field; a number that is
\* an int is stored, null leaves the field alone, any other value is an
\* UnmarshalTypeError, which is remembered while decoding goes on.  Keys
\* that name no field are skipped.
RECURSIVE DecodeMembers(_, _)
DecodeMembers(members, claims) ==
    IF Len(members) = 0 THEN claims
    ELSE LET m   == Head(members)
             key == [k \in 1..Len(m.key) |-> ToLower(m.key[k])]
             n   == ParseInt(m.val.lit)
             nxt == IF key # <<"e", "x", "p">> \/ m.val.kind = "null" THEN claims
                    ELSE IF m.val.kind = "number" /\ ~n.err THEN [claims EXCEPT !.Exp = n.n]
                    ELSE [claims EXCEPT !.err = TRUE]
         IN  DecodeMembers(Tail(members), nxt)

\* json.Unmarshal(data, &claims) for a zero jwtClaims: a syntax error when
\* data is not valid JSON; null decodes to nothing; an object decodes its
\* members; any other value is an UnmarshalTypeError.
Unmarshal(data) ==
    LET Into(doc) ==
            IF ~doc.ok THEN [err |-> TRUE, Exp |-> 0]
            ELSE IF doc.val.kind = "null" THEN [err |-> FALSE, Exp |-> 0]
            ELSE IF doc.val.kind # "object" THEN [err |-> TRUE, Exp |-> 0]
            ELSE DecodeMembers(doc.val.members, [err |-> FALSE, Exp |-> 0])
    IN  Into(ScanDocument(String(data)))

\* strconv.Itoa for n >= 0, as json.Marshal writes an integer.
RECURSIVE Itoa(_)
Itoa(n) == IF n < 10 THEN <<Digits[n + 1]>> ELSE Append(Itoa(n \div 10), Digits[(n % 10) + 1])

(***************************************************************************)
(* Errors are chains of messages, outermost first, as fmt.Errorf("...: %w")*)
(* wraps them; the nil error is the empty chain.                           *)
(***************************************************************************)

Nil == <<>>

\* fmt.Errorf(msg + ": %w", cause)
Wrap(msg, cause) == <<msg>> \o cause

\* errors.Is(chain, cause): cause is wrapped somewhere in the chain.
Wraps(chain, cause) ==
    cause # Nil /\ Len(chain) >= Len(cause)
        /\ SubSeq(chain, Len(chain) - Len(cause) + 1, Len(chain)) = cause

(***************************************************************************)
(* time.Time as Unix seconds.  The zero Time (January 1 of year 1) lies    *)
(* before every instant the model's integers reach; it is represented by   *)
(* the least of them.                                                      *)
(***************************************************************************)

ZeroTime == -2147483647

IsZero(t) == t = ZeroTime

Before(t, u) == t < u

\* time.Unix(sec, 0)
Unix(sec) == sec

\* The default of AuthMiddleware.MinRemaining: time.Minute * 10, in seconds.
MinRemaining == 600

(***************************************************************************)
(* getExpiry and the condition under which Request fetches a new token     *)
(***************************************************************************)

\* The segment count checked as "at least three".
getExpiryAtLeast3(accessToken) ==
    LET base64Claims == Split(accessToken, ".")
        Unmarshalled(claims) ==
            IF claims.err
            THEN [expires |-> ZeroTime,
                  err |-> Wrap("failed to unmarshal claims", <<"json error">>)]
            ELSE [expires |-> Unix(claims.Exp), err |-> Nil]
        Decoded(claimsBytes) ==
            IF claimsBytes.err
            THEN [expires |-> ZeroTime,
                  err |-> Wrap("failed to decode claims", <<"illegal base64 data">>)]
            ELSE Unmarshalled(Unmarshal(claimsBytes.bytes))
    IN  IF Len(base64Claims) < 3
        THEN [expires |-> ZeroTime, err |-> <<"unexpected token format">>]
        ELSE Decoded(DecodeString(base64Claims[2]))

\* getExpiry: the exp claim of the middle one of the token's three
\* dot-separated segments, as a time.  On an error the zero Time is returned.
getExpiry(accessToken) ==
    LET base64Claims == Split(accessToken, ".")
        Unmarshalled(claims) ==
            IF claims.err
            THEN [expires |-> ZeroTime,
                  err |-> Wrap("failed to unmarshal claims", <<"json error">>)]
            ELSE [expires |-> Unix(claims.Exp), err |-> Nil]
        Decoded(claimsBytes) ==
            IF claimsBytes.err
            THEN [expires |-> ZeroTime,
                  err |-> Wrap("failed to decode claims", <<"illegal base64 data">>)]
            ELSE Unmarshalled(Unmarshal(claimsBytes.bytes))
    IN  IF Len(base64Claims) # 3
        THEN [expires |-> ZeroTime, err |-> <<"unexpected token format">>]
        ELSE Decoded(DecodeString(base64Claims[2]))

\* The comparison of the expiry turned around.
NeedsFetchAfter(token, expires, t) ==
    token = <<>> \/ IsZero(expires) \/ Before(t - MinRemaining, expires)

\* The condition of Request's if statement: no token is cached, or no
\* expiry, or the expiry lies before t less MinRemaining.
NeedsFetch(token, expires, t) ==
    token = <<>> \/ IsZero(expires) \/ Before(expires, t - MinRemaining)

Bearer == <<"B", "e", "a", "r", "e", "r", " ">>

\* The token kept as TokenFetcher returned it when it returned an error.
StoreTokenKeep(ret) ==
    IF ret.err # Nil
    THEN [token |-> ret.token, err |-> Wrap("failed to fetch token", ret.err)]
    ELSE [token |-> TrimPrefix(ret.token, Bearer), err |-> Nil]

\* The error of TokenFetcher dropped.
StoreTokenIgnoreErr(ret) == [token |-> TrimPrefix(ret.token, Bearer), err |-> Nil]

\* m.token, err = m.TokenFetcher() and the statements up to the call of
\* getExpiry, for the result ret = [token, err] of TokenFetcher: the token
\* Request stores and the error it returns (Nil: it goes on).
StoreToken(ret) ==
    IF ret.err # Nil
    THEN [token |-> <<>>, err |-> Wrap("failed to fetch token", ret.err)]
    ELSE [token |-> TrimPrefix(ret.token, Bearer), err |-> Nil]

\* The expiry left at the epoch, not at the zero Time, on an error.
StoreExpiryEpoch(token) ==
    LET Stored(expiry) ==
            IF expiry.err # Nil
            THEN [expires |-> Unix(0), err |-> Wrap("failed to get expiry", expiry.err)]
            ELSE [expires |-> expiry.expires, err |-> Nil]
    IN  Stored(getExpiry(token))

\* m.expires, err = getExpiry(m.token) and the statements after it: the
\* expiry Request stores and the error it returns.
StoreExpiry(token) ==
    LET Stored(expiry) ==
            IF expiry.err # Nil
            THEN [expires |-> ZeroTime, err |-> Wrap("failed to get expiry", expiry.err)]
            ELSE [expires |-> expiry.expires, err |-> Nil]
    IN  Stored(getExpiry(token))

\* http.Header: the values of each key.  Header.Set replaces the values of
\* a key with the one value.
HeaderKeys == {"Authorization", "Content-Type"}

NoHeader == [k \in HeaderKeys |-> <<>>]

\* The value set only when the key has none.
HeaderSetIfAbsent(header, key, value) ==
    IF Len(header[key]) = 0 THEN [header EXCEPT ![key] = <<value>>] ELSE header

HeaderSet(header, key, value) == [header EXCEPT ![key] = <<value>>]

\* Header.Get: the first value of the key, "" when it has none.
HeaderGet(header, key) == IF Len(header[key]) = 0 THEN <<>> ELSE header[key][1]

\* The token added to the values of the Authorization header (Header.Add).
AuthorizeAdd(header, token) ==
    [header EXCEPT !["Authorization"] = Append(@, Bearer \o token)]

\* Request's last statement: the Authorization header set to the token.
Authorize(header, token) == HeaderSet(header, "Authorization", Bearer \o token)

(***************************************************************************)
(* What a TokenFetcher may return.  The tokens are built as the tests      *)
(* build theirs: a header, the unpadded URL-safe base64 of the claims and  *)
(* a signature, joined by dots.                                            *)
(***************************************************************************)

\* json.Marshal(map[string]any{"exp": exp})
claimsJSON(exp) == <<"{", "\"", "e", "x", "p", "\"", ":">> \o Itoa(exp) \o <<"}">>

JWT(payload) == <<"h", ".">> \o EncodeToString(Bytes(payload)) \o <<".", "s">>

\* The exp claims of the well-formed tokens, in Unix seconds.
TokenExps == {1400, 3200}

validTokens == {JWT(claimsJSON(e)) : e \in TokenExps}

\* Strings getExpiry rejects: the empty string, a string without dots, one
\* with four segments, a middle segment that is not base64, and one that
\* decodes to something that is not JSON.
badTokens ==
    { <<>>,
      <<"n", "o", "t", "-", "a", "-", "j", "w", "t">>,
      JWT(claimsJSON(3200)) \o <<".", "x">>,
      <<"h", ".", "<", ">", ".", "s">>,
      JWT(<<"n", "o", "t", "-", "j", "s", "o", "n">>) }

\* Three-segment tokens whose claims are a JSON object without a numeric
\* exp: {} and {"exp":"x"}.
noExpToken == JWT(<<"{", "}">>)

textExpToken == JWT(<<"{", "\"", "e", "x", "p", "\"", ":", "\"", "x", "\"", "}">>)

errFetch == <<"token endpoint unavailable">>

FetchResults ==
    {[token |-> t, err |-> Nil] :
         t \in validTokens \cup badTokens \cup {noExpToken, textExpToken}}
        \cup {[token |-> Bearer \o JWT(claimsJSON(3200)), err |-> Nil]}
        \cup {[token |-> Bearer \o Bearer \o JWT(claimsJSON(3200)), err |-> Nil]}
        \cup {[token |-> t, err |-> errFetch] : t \in {<<>>, JWT(claimsJSON(3200))}}

\* What the TokenFetcher of a client's option returns.
ClientFetchResults ==
    { [token |-> JWT(claimsJSON(3200)), err |-> Nil],
      [token |-> <<"n", "o", "t", "-", "a", "-", "j", "w", "t">>, err |-> Nil],
      [token |-> <<>>, err |-> errFetch] }

errHook == <<"hook refused">>

errDo == <<"connection refused">>

\* What Doer.Do returns: an error, or a response with a status, a body and
\* whether reading the body fails.
NoResponse == [status |-> 0, body |-> <<>>, readErr |-> FALSE, closed |-> FALSE]

Response(status, body, readErr) ==
    [status |-> status, body |-> body, readErr |-> readErr, closed |-> FALSE]

Responses ==
    { Response(200, <<"{", "\"", "i", "d", "\"", ":", "1", "}">>, FALSE),
      Response(200, <<"o", "o", "p", "s">>, FALSE),
      Response(200, <<"{", "\"", "i", "d", "\"", ":", "1", "}">>, TRUE),
      Response(300, <<"{", "\"", "i", "d", "\"", ":", "1", "}">>, FALSE),
      Response(404, <<"{", "\"", "m", "e", "s", "s", "a", "g", "e", "\"", ":", "\"", "N", "o", "t", " ", "f", "o", "u", "n", "d", "\"", "}">>, FALSE),
      Response(500, <<"{", "\"", "m", "e", "s", "s", "a", "g", "e", "\"", ":", "\"", "e", "r", "r", "o", "r", "\"", "}">>, FALSE),
      Response(500, <<"o", "o", "p", "s">>, TRUE) }

(***************************************************************************)
(* The client: options, newConfig, the middlewares' hooks, decodeResponse  *)
(***************************************************************************)

\* TokenFetcher values: a function, or nil.
NilFetcher == "nil"

\* newAuthMiddleware: nothing cached (and the mutex free).
newAuthMiddleware(tokenFetcher) ==
    [TokenFetcher |-> tokenFetcher, token |-> <<>>, expires |-> ZeroTime]

applicationJSON == <<"a", "p", "p", "l", "i", "c", "a", "t", "i", "o", "n", "/", "j", "s", "o", "n">>

\* The Middleware values: a requestHeaderMiddleware{key, value}, a pointer
\* to the AuthMiddleware instance numbered inst, and a Middleware of the
\* user's, whose hooks return what they like.
requestHeaderMiddleware(key, value) ==
    [kind |-> "requestHeaderMiddleware", key |-> key, value |-> value, inst |-> 0]

AuthMiddlewareAt(inst) ==
    [kind |-> "AuthMiddleware", key |-> "", value |-> <<>>, inst |-> inst]

userMiddleware == [kind |-> "user", key |-> "", value |-> <<>>, inst |-> 0]

\* The options.  Each is a function that is applied to the Config when
\* newConfig runs.
WithAuthMiddleware(tokenFetcher) ==
    [opt |-> "WithAuthMiddleware", key |-> "", value |-> <<>>, fetcher |-> tokenFetcher]

WithRequestHeader(key, value) ==
    [opt |-> "WithRequestHeader", key |-> key, value |-> value, fetcher |-> NilFetcher]

WithAuthorization(authorization) == WithRequestHeader("Authorization", authorization)

WithContentType(contentType) == WithRequestHeader("Content-Type", contentType)

WithMiddleware == [opt |-> "WithMiddleware", key |-> "", value |-> <<>>, fetcher |-> NilFetcher]

\* An Opt of the user's that returns an error.
failingOpt == [opt |-> "failing", key |-> "", value |-> <<>>, fetcher |-> NilFetcher]

errOpt == <<"option refused">>

\* One option applied to c = [Middleware, heap, err], heap being the
\* AuthMiddleware instances allocated so far: WithAuthMiddleware allocates
\* a new instance each time it is applied.
ApplyOpt(o, c) ==
    CASE o.opt = "WithAuthMiddleware" ->
             [c EXCEPT !.Middleware = Append(@, AuthMiddlewareAt(Len(c.heap) + 1)),
                       !.heap = Append(@, newAuthMiddleware(o.fetcher))]
      [] o.opt = "WithRequestHeader" ->
             [c EXCEPT !.Middleware = Append(@, requestHeaderMiddleware(o.key, o.value))]
      [] o.opt = "WithMiddleware" ->
             [c EXCEPT !.Middleware = Append(@, userMiddleware)]
      [] OTHER -> [c EXCEPT !.err = errOpt]

RECURSIVE ApplyOpts(_, _)
ApplyOpts(os, c) ==
    IF Len(os) = 0 THEN c
    ELSE LET d == ApplyOpt(Head(os), c)
         IN  IF d.err # Nil
             THEN [d EXCEPT !.err = Wrap("failed to apply option", d.err)]
             ELSE ApplyOpts(Tail(os), d)

\* newConfig(opts...): the Content-Type middleware first, then what the
\* options append, in their order.
newConfig(os, heap) ==
    ApplyOpts(os, [Middleware |-> <<requestHeaderMiddleware("Content-Type", applicationJSON)>>,
                   heap |-> heap, err |-> Nil])

\* AuthMiddleware.Request from its first statement to its return, with
\* no other call on the instance: m is the instance, t the clock, header
\* the request's header, ret what TokenFetcher returns if it is invoked.
\* The result is the instance's fields, the header and the error returned,
\* and whether TokenFetcher was invoked.
Request(m, t, header, ret) ==
    LET AfterExpiry(st, se) ==
            IF se.err # Nil
            THEN [m |-> [m EXCEPT !.token = st.token, !.expires = se.expires],
                  header |-> header, err |-> se.err, fetched |-> TRUE]
            ELSE [m |-> [m EXCEPT !.token = st.token, !.expires = se.expires],
                  header |-> Authorize(header, st.token), err |-> Nil, fetched |-> TRUE]
        AfterFetch(st) ==
            IF st.err # Nil
            THEN [m |-> [m EXCEPT !.token = st.token], header |-> header,
                  err |-> st.err, fetched |-> TRUE]
            ELSE AfterExpiry(st, StoreExpiry(st.token))
    IN  IF m.TokenFetcher = NilFetcher
        THEN [m |-> m, header |-> header, err |-> Nil, fetched |-> FALSE]
        ELSE IF ~NeedsFetch(m.token, m.expires, t)
        THEN [m |-> m, header |-> Authorize(header, m.token), err |-> Nil,
              fetched |-> FALSE]
        ELSE AfterFetch(StoreToken(ret))

\* Errors of the client: a chain of messages, and for an InvalidStatusError
\* or an InvalidJSONError the Status and Body fields.
NoError == [chain |-> Nil, status |-> 0, body |-> <<>>]

Error(chain) == [chain |-> chain, status |-> 0, body |-> <<>>]

InvalidStatusError(status, body) ==
    [chain |-> <<"InvalidStatusError">>, status |-> status, body |-> body]

InvalidJSONError(status, body) ==
    [chain |-> <<"InvalidJSONError", "json error">>, status |-> status, body |-> body]

\* A loop over the Request hooks that goes on after an error.
AfterRequestHookIgnoringError(e, k, n) ==
    IF k < n THEN [step |-> "request", k |-> k + 1, err |-> NoError]
    ELSE [step |-> "do", k |-> 0, err |-> NoError]

\* What Raw does with the error e of the Request hook of middleware k of n:
\* it returns the error wrapped, or goes on to the next hook, or to Do.
AfterRequestHook(e, k, n) ==
    IF e # Nil
    THEN [step |-> "returned", k |-> k,
          err |-> Error(Wrap("middleware failed to modify request", e))]
    ELSE IF k < n THEN [step |-> "request", k |-> k + 1, err |-> NoError]
    ELSE [step |-> "do", k |-> 0, err |-> NoError]

\* A loop over the Response hooks that goes on after an error.
AfterResponseHookIgnoringError(e, k, n) ==
    IF k < n THEN [step |-> "response", k |-> k + 1, err |-> NoError]
    ELSE [step |-> "raw returned", k |-> 0, err |-> NoError]

\* The same for the Response hooks: after the last one Raw returns the
\* response.
AfterResponseHook(e, k, n) ==
    IF e # Nil
    THEN [step |-> "returned", k |-> k,
          err |-> Error(Wrap("middleware failed to modify response", e))]
    ELSE IF k < n THEN [step |-> "response", k |-> k + 1, err |-> NoError]
    ELSE [step |-> "raw returned", k |-> 0, err |-> NoError]

\* json.Unmarshal(bodyBytes, &response) for the response types of the
\* tests, a struct or a map: the body decodes when it is a JSON object or
\* null.
Decodes(body) ==
    LET Fits(doc) == doc.ok /\ doc.val.kind \in {"object", "null"}
    IN  Fits(ScanDocument(body))

\* io.ReadAll(res.Body): the body, or when reading fails what was read
\* until then (here the first half) and an error.
ReadAll(res) ==
    IF res.readErr
    THEN [data |-> SubSeq(res.body, 1, Len(res.body) \div 2), err |-> TRUE]
    ELSE [data |-> res.body, err |-> FALSE]

\* The body of a response with a good status returned undecoded.
decodeResponseUnchecked(res) ==
    IF res.status < 200 \/ res.status > 299
    THEN [response |-> <<>>, err |-> InvalidStatusError(res.status, res.body)]
    ELSE [response |-> res.body, err |-> NoError]

\* Every status below 400 taken for a success.
decodeResponseBelow400(res) ==
    IF res.status < 200 \/ res.status > 399
    THEN [response |-> <<>>, err |-> InvalidStatusError(res.status, res.body)]
    ELSE [response |-> res.body, err |-> NoError]

\* decodeResponse: the value decoded (<<>> stands for the zero value, a
\* decoded body for its value) and the error.
decodeResponse(res) ==
    IF res.status < 200 \/ res.status > 299
    THEN [response |-> <<>>, err |-> InvalidStatusError(res.status, ReadAll(res).data)]
    ELSE IF ReadAll(res).err
    THEN [response |-> <<>>,
          err |-> Error(Wrap("failed to read response body", <<"unexpected EOF">>))]
    ELSE IF ~Decodes(res.body)
    THEN [response |-> <<>>, err |-> InvalidJSONError(res.status, res.body)]
    ELSE [response |-> res.body, err |-> NoError]

\* The option lists a client is configured with.
abc == <<"B", "e", "a", "r", "e", "r", " ", "a", "b", "c">>

textPlain == <<"t", "e", "x", "t", "/", "p", "l", "a", "i", "n">>

OptLists ==
    { <<>>,
      <<WithAuthMiddleware("f")>>,
      <<WithAuthorization(abc)>>,
      <<WithMiddleware>>,
      <<WithAuthMiddleware("f"), WithMiddleware>>,
      <<WithAuthorization(abc), WithAuthMiddleware("f")>>,
      <<WithAuthMiddleware("f"), WithAuthorization(abc)>>,
      <<WithContentType(textPlain)>>,
      <<WithAuthorization(abc), WithAuthMiddleware(NilFetcher)>>,
      <<failingOpt>> }

(***************************************************************************)
(* The state                                                               *)
(***************************************************************************)

\* The AuthMiddleware instances the callers share, and the goroutines that
\* call Request on them.
Instances == {"A"}

Callers == {"c1", "c2"}

NoOne == "none"

\* The clock advances in steps of ClockStep seconds, MaxTicks times.
ClockStep == 900

MaxTicks == 4

\* The number of Request calls of a behaviour, and of calls of a client.
MaxCalls == 3

MaxClientCalls == 3

VARIABLES
    now,      \* the clock m.now reads, in Unix seconds
    mw,       \* mw[i]: the fields of AuthMiddleware instance i
    mutex,    \* mutex[i]: the caller that holds instance i's m.m, or NoOne
    fetches,  \* fetches[i]: how often instance i's TokenFetcher was invoked
    pc,       \* pc[p]: where caller p is in its Request call
    on,       \* on[p]: the instance caller p calls
    req,      \* req[p]: the header of the request caller p passes
    err,      \* err[p]: what caller p's last Request call returned
    got,      \* got[p]: what TokenFetcher returned to caller p's call
    waited,   \* waited[p]: the number of the fetch caller p's call waited behind, or 0
    turn,     \* turn[p]: the number of the fetch caller p's call made, or 0
    last,     \* last[i]: what the last Request call to return on i returned
    ncalls,   \* the Request calls made so far
    opts,     \* the options the client passes to each of its calls
    cfn,      \* the client function being called: Get, Post, Put or Raw
    cstep,    \* where that call is
    cmw,      \* its config.Middleware
    ck,       \* the index of the middleware whose hook runs next
    creq,     \* the header of its request
    csent,    \* the headers of the requests it has passed to Doer.Do
    cres,     \* the response Doer.Do returned to it
    cret,     \* what it returned: response, ok and err
    chook,    \* the error a Request hook returned to it
    cfetched, \* how often it invoked a TokenFetcher
    issued,   \* the token and expiry the client's TokenFetcher last issued
    nclient,  \* the calls the client has made so far
    clog      \* the hooks and Doer.Do as its call invoked them, with what they returned

authVars == <<mutex, pc, on, req, err, got, waited, turn, last, ncalls>>

clientVars ==
    <<opts, cfn, cstep, cmw, ck, creq, csent, cres, cret, chook, cfetched, issued, nclient,
      clog>>

vars == <<now, mw, fetches, authVars, clientVars>>

NoReturn == [response |-> <<>>, ok |-> FALSE, err |-> NoError]

\* An entry of the log of a call: the Request or Response hook of
\* middleware k, or Doer.Do, and the error it returned.
Invoked(hook, k, e) == [hook |-> hook, k |-> k, err |-> e]

\* No call of the client is under way.
ClientIdle ==
    /\ cfn = "none"
    /\ cstep = "idle"
    /\ cmw = <<>>
    /\ ck = 0
    /\ creq = NoHeader
    /\ csent = <<>>
    /\ cres = NoResponse
    /\ cret = NoReturn
    /\ chook = Nil
    /\ cfetched = 0
    /\ issued = newAuthMiddleware("f")
    /\ nclient = 0
    /\ clog = <<>>

\* No caller is in Request.
CallersIdle ==
    /\ pc = [p \in Callers |-> "idle"]
    /\ on = [p \in Callers |-> CHOOSE i \in Instances : TRUE]
    /\ req = [p \in Callers |-> NoHeader]
    /\ err = [p \in Callers |-> Nil]
    /\ got = [p \in Callers |-> <<>>]
    /\ waited = [p \in Callers |-> 0]
    /\ turn = [p \in Callers |-> 0]
    /\ ncalls = 0

\* The instances constructed by newAuthMiddleware, as the tests do, with
\* callers that call Request on them.
Init ==
    /\ now = 0
    /\ mw = [i \in Instances |-> newAuthMiddleware("f")]
    /\ mutex = [i \in Instances |-> NoOne]
    /\ fetches = [i \in Instances |-> 0]
    /\ last = [i \in Instances |-> Nil]
    /\ CallersIdle
    /\ opts = <<>>
    /\ ClientIdle

(***************************************************************************)
(* AuthMiddleware.Request, in the steps other goroutines can tell apart:   *)
(* the call blocks in m.m.Lock() until the mutex is free, and it holds the *)
(* mutex while TokenFetcher runs and while it writes token and expires.    *)
(***************************************************************************)

\* A mutex that never excludes anyone.
CanLockAlways(i) == TRUE

\* One mutex for all instances.
CanLockWhenAllFree(i) == \A j \in DOMAIN mutex : mutex[j] = NoOne

\* sync.Mutex.Lock returns only when no one holds the mutex.
CanLock(i) == mutex[i] = NoOne

\* The callers blocked in m.m.Lock() of instance i.
Blocked(i) == {q \in Callers : pc[q] = "lock" /\ on[q] = i}

\* The call reaching m.m.Lock() whatever TokenFetcher is.
CallLocking(p, i, reuse) ==
    /\ pc[p] \in {"idle", "done"}
    /\ ncalls < MaxCalls
    /\ ncalls' = ncalls + 1
    /\ on' = [on EXCEPT ![p] = i]
    /\ req' = IF reuse THEN req ELSE [req EXCEPT ![p] = NoHeader]
    /\ err' = [err EXCEPT ![p] = Nil]
    /\ got' = [got EXCEPT ![p] = <<>>]
    /\ waited' = [waited EXCEPT ![p] = IF mutex[i] # NoOne THEN fetches[i] ELSE 0]
    /\ turn' = [turn EXCEPT ![p] = 0]
    /\ pc' = [pc EXCEPT ![p] = "lock"]
    /\ UNCHANGED <<now, mw, mutex, fetches, last, clientVars>>

\* Caller p calls m.Request(req) on instance i, with a new request or with
\* the request of its last call again.  With a nil TokenFetcher the call
\* returns nil at once; otherwise it reaches m.m.Lock().
Call(p, i, reuse) ==
    /\ pc[p] \in {"idle", "done"}
    /\ ncalls < MaxCalls
    /\ ncalls' = ncalls + 1
    /\ on' = [on EXCEPT ![p] = i]
    /\ req' = IF reuse THEN req ELSE [req EXCEPT ![p] = NoHeader]
    /\ err' = [err EXCEPT ![p] = Nil]
    /\ got' = [got EXCEPT ![p] = <<>>]
    /\ waited' = [waited EXCEPT ![p] = IF mutex[i] # NoOne THEN fetches[i] ELSE 0]
    /\ turn' = [turn EXCEPT ![p] = 0]
    /\ pc' = [pc EXCEPT ![p] = IF mw[i].TokenFetcher = NilFetcher THEN "done" ELSE "lock"]
    /\ UNCHANGED <<now, mw, mutex, fetches, last, clientVars>>

\* m.m.Lock() returns and the condition is evaluated.  With a fresh token
\* cached, the header is set, the mutex released and nil returned;
\* otherwise TokenFetcher is invoked, the mutex held.
Lock(p) ==
    LET i == on[p] IN
    /\ pc[p] = "lock"
    /\ CanLock(i)
    /\ IF NeedsFetch(mw[i].token, mw[i].expires, now)
       THEN /\ mutex' = [mutex EXCEPT ![i] = p]
            /\ fetches' = [fetches EXCEPT ![i] = @ + 1]
            /\ pc' = [pc EXCEPT ![p] = "fetch"]
            /\ waited' = [q \in Callers |->
                              IF q \in Blocked(i) \ {p} THEN fetches[i] + 1 ELSE waited[q]]
            /\ turn' = [turn EXCEPT ![p] = fetches[i] + 1]
            /\ UNCHANGED <<req, last>>
       ELSE /\ req' = [req EXCEPT ![p] = Authorize(@, mw[i].token)]
            /\ pc' = [pc EXCEPT ![p] = "done"]
            /\ last' = [last EXCEPT ![i] = Nil]
            /\ UNCHANGED <<mutex, fetches, waited, turn>>
    /\ UNCHANGED <<now, mw, on, err, got, ncalls, clientVars>>

\* The return on a fetch error without the unlock.
ReturnLocked(p, ret) ==
    LET i == on[p]
        r == StoreToken(ret)
    IN  /\ pc[p] = "fetch"
        /\ got' = [got EXCEPT ![p] = Append(@, ret)]
        /\ mw' = [mw EXCEPT ![i].token = r.token]
        /\ IF r.err # Nil
           THEN /\ err' = [err EXCEPT ![p] = r.err]
                /\ last' = [last EXCEPT ![i] = r.err]
                /\ pc' = [pc EXCEPT ![p] = "done"]
                /\ UNCHANGED mutex
           ELSE /\ pc' = [pc EXCEPT ![p] = "expiry"]
                /\ UNCHANGED <<err, last, mutex>>
        /\ UNCHANGED <<now, fetches, on, req, waited, turn, ncalls, clientVars>>

\* TokenFetcher returns ret and m.token is written.  On an error Request
\* returns it wrapped, and the deferred m.m.Unlock() runs.
Return(p, ret) ==
    LET i == on[p]
        r == StoreToken(ret)
    IN  /\ pc[p] = "fetch"
        /\ got' = [got EXCEPT ![p] = Append(@, ret)]
        /\ mw' = [mw EXCEPT ![i].token = r.token]
        /\ IF r.err # Nil
           THEN /\ err' = [err EXCEPT ![p] = r.err]
                /\ last' = [last EXCEPT ![i] = r.err]
                /\ mutex' = [mutex EXCEPT ![i] = NoOne]
                /\ pc' = [pc EXCEPT ![p] = "done"]
           ELSE /\ pc' = [pc EXCEPT ![p] = "expiry"]
                /\ UNCHANGED <<err, last, mutex>>
        /\ UNCHANGED <<now, fetches, on, req, waited, turn, ncalls, clientVars>>

\* getExpiry returns and m.expires is written.  On an error Request returns
\* it wrapped; otherwise it sets the header and returns nil.  The deferred
\* m.m.Unlock() runs.
Expiry(p) ==
    LET i == on[p]
        Stores(r) ==
            /\ mw' = [mw EXCEPT ![i].expires = r.expires]
            /\ err' = [err EXCEPT ![p] = r.err]
            /\ last' = [last EXCEPT ![i] = r.err]
            /\ req' = IF r.err = Nil THEN [req EXCEPT ![p] = Authorize(@, mw[i].token)]
                      ELSE req
    IN  /\ pc[p] = "expiry"
        /\ Stores(StoreExpiry(mw[i].token))
        /\ mutex' = [mutex EXCEPT ![i] = NoOne]
        /\ pc' = [pc EXCEPT ![p] = "done"]
        /\ UNCHANGED <<now, fetches, on, got, waited, turn, ncalls, clientVars>>

\* Time passes.
Tick ==
    /\ now < MaxTicks * ClockStep
    /\ now' = now + ClockStep
    /\ UNCHANGED <<mw, fetches, authVars, clientVars>>

Next ==
    \/ \E p \in Callers, i \in Instances, reuse \in BOOLEAN : Call(p, i, reuse)
    \/ \E p \in Callers : Lock(p)
    \/ \E p \in Callers, ret \in FetchResults : Return(p, ret)
    \/ \E p \in Callers : Expiry(p)
    \/ Tick

Spec == Init /\ [][Next]_vars

\* The scheduling of Request: a TokenFetcher invocation returns, getExpiry
\* returns, and a caller blocked in m.m.Lock() gets the mutex when it is
\* free again and again (sync.Mutex hands the mutex to a waiter that has
\* waited long: its starvation mode).
\* What TokenFetcher returns: one result for each way Request goes on, a
\* token with an expiry, a token without one, and an error.
LiveFetchResults ==
    { [token |-> JWT(claimsJSON(1400)), err |-> Nil],
      [token |-> <<"n", "o", "t", "-", "a", "-", "j", "w", "t">>, err |-> Nil],
      [token |-> <<>>, err |-> errFetch] }

LiveNext ==
    \/ \E p \in Callers, i \in Instances, reuse \in BOOLEAN : Call(p, i, reuse)
    \/ \E p \in Callers : Lock(p)
    \/ \E p \in Callers, ret \in LiveFetchResults : Return(p, ret)
    \/ \E p \in Callers : Expiry(p)
    \/ Tick

\* The last conjunct is WF_vars(Expiry(p)), with ENABLED <<Expiry(p)>>_vars
\* written as what it is, pc[p] = "expiry": getExpiry always returns.
Fairness ==
    \A p \in Callers :
        /\ SF_vars(Lock(p))
        /\ WF_vars(\E ret \in LiveFetchResults : Return(p, ret))
        /\ ([]<>(pc[p] # "expiry") \/ []<><<Expiry(p)>>_vars)

LiveSpec == Init /\ [][LiveNext]_vars /\ Fairness

(***************************************************************************)
(* Two AuthMiddleware instances, each constructed by newAuthMiddleware,    *)
(* and callers that call Request on either.                                *)
(***************************************************************************)

Pair == {"A", "B"}

\* What the TokenFetchers of the two instances return.
PairFetchResults ==
    { [token |-> JWT(claimsJSON(1400)), err |-> Nil],
      [token |-> JWT(claimsJSON(3200)), err |-> Nil],
      [token |-> <<"n", "o", "t", "-", "a", "-", "j", "w", "t">>, err |-> Nil],
      [token |-> <<>>, err |-> errFetch] }

PairInit ==
    /\ now = 0
    /\ mw = [i \in Pair |-> newAuthMiddleware("f")]
    /\ mutex = [i \in Pair |-> NoOne]
    /\ fetches = [i \in Pair |-> 0]
    /\ last = [i \in Pair |-> Nil]
    /\ CallersIdle
    /\ opts = <<>>
    /\ ClientIdle

PairNext ==
    \/ \E p \in Callers, i \in Pair, reuse \in BOOLEAN : Call(p, i, reuse)
    \/ \E p \in Callers : Lock(p)
    \/ \E p \in Callers, ret \in PairFetchResults : Return(p, ret)
    \/ \E p \in Callers : Expiry(p)
    \/ Tick

PairSpec == PairInit /\ [][PairNext]_vars

\* The same with instance B constructed with a nil TokenFetcher.
NilInit ==
    /\ now = 0
    /\ mw = [i \in Pair |-> IF i = "B" THEN newAuthMiddleware(NilFetcher)
                            ELSE newAuthMiddleware("f")]
    /\ mutex = [i \in Pair |-> NoOne]
    /\ fetches = [i \in Pair |-> 0]
    /\ last = [i \in Pair |-> Nil]
    /\ CallersIdle
    /\ opts = <<>>
    /\ ClientIdle

NilSpec == NilInit /\ [][PairNext]_vars

(***************************************************************************)
(* The client's calls: Get, Post, Put and Raw with the client's options.   *)
(* A call runs newConfig, the Request hooks, Doer.Do, the Response hooks   *)
(* and, but for Raw, the decoding of the response.                         *)
(***************************************************************************)

\* A client configured with one of the option lists; no AuthMiddleware
\* exists before its first call.
ClientInit ==
    /\ now = 0
    /\ mw = <<>>
    /\ fetches = <<>>
    /\ mutex = <<>>
    /\ last = <<>>
    /\ CallersIdle
    /\ opts \in OptLists
    /\ ClientIdle

\* The call returns ret from the step it is at.
Returns(ret) ==
    /\ cstep' = "returned"
    /\ cret' = ret

\* Get, Post, Put or Raw is called with the client's options.  Post and Put
\* marshal the request body first (pre = "marshal": that fails), Get, Post
\* and Put make the request (pre = "request": that fails), and Raw runs
\* newConfig.
Begin(fn, pre) ==
    LET c == newConfig(opts, mw) IN
    /\ cstep \in {"idle", "returned"}
    /\ pre = "marshal" => fn \in {"Post", "Put"}
    /\ pre = "request" => fn # "Raw"
    /\ nclient < MaxClientCalls
    /\ nclient' = nclient + 1
    /\ clog' = <<>>
    /\ cfn' = fn
    /\ creq' = NoHeader
    /\ csent' = <<>>
    /\ cres' = NoResponse
    /\ chook' = Nil
    /\ cfetched' = 0
    /\ ck' = IF pre = "ok" /\ c.err = Nil THEN 1 ELSE 0
    /\ IF pre = "marshal"
       THEN /\ Returns([NoReturn EXCEPT
                   !.err = Error(Wrap("failed to marshal request", <<"json error">>))])
            /\ UNCHANGED <<cmw, mw, fetches>>
       ELSE IF pre = "request"
       THEN /\ Returns([NoReturn EXCEPT
                   !.err = Error(Wrap("failed to create request", <<"net/http error">>))])
            /\ UNCHANGED <<cmw, mw, fetches>>
       ELSE /\ mw' = c.heap
            /\ fetches' = [i \in 1..Len(c.heap) |-> IF i <= Len(fetches) THEN fetches[i] ELSE 0]
            /\ IF c.err # Nil
               THEN /\ Returns([NoReturn EXCEPT
                           !.err = Error(Wrap("failed to create config", c.err))])
                    /\ UNCHANGED cmw
               ELSE /\ cmw' = c.Middleware
                    /\ cstep' = "request"
                    /\ cret' = NoReturn
    /\ UNCHANGED <<now, authVars, opts, issued>>

\* Raw calls the Request hook of middleware ck.  A requestHeaderMiddleware
\* sets its header; an AuthMiddleware runs Request, its TokenFetcher
\* returning ret if invoked; a middleware of the user's returns e.
RequestHook(ret, e) ==
    LET m == cmw[ck]
        Goes(hookErr, after) ==
            /\ clog' = Append(clog, Invoked("Request", ck, hookErr))
            /\ chook' = hookErr
            /\ cstep' = after.step
            /\ ck' = after.k
            /\ cret' = [cret EXCEPT !.err = after.err]
        Auth(r) ==
            /\ creq' = r.header
            /\ mw' = [mw EXCEPT ![m.inst] = r.m]
            /\ fetches' = [fetches EXCEPT ![m.inst] = IF r.fetched THEN @ + 1 ELSE @]
            /\ cfetched' = IF r.fetched THEN cfetched + 1 ELSE cfetched
            /\ issued' = IF r.fetched /\ r.err = Nil THEN r.m ELSE issued
            /\ Goes(r.err, AfterRequestHook(r.err, ck, Len(cmw)))
    IN  /\ cstep = "request"
        /\ CASE m.kind = "AuthMiddleware" ->
                    Auth(Request(mw[m.inst], now, creq, ret))
             [] m.kind = "requestHeaderMiddleware" ->
                    /\ creq' = HeaderSet(creq, m.key, m.value)
                    /\ Goes(Nil, AfterRequestHook(Nil, ck, Len(cmw)))
                    /\ UNCHANGED <<mw, fetches, cfetched, issued>>
             [] OTHER ->
                    /\ Goes(e, AfterRequestHook(e, ck, Len(cmw)))
                    /\ UNCHANGED <<creq, mw, fetches, cfetched, issued>>
        /\ UNCHANGED <<now, authVars, opts, cfn, cmw, csent, cres, nclient>>

\* Raw calls config.Client.Do(req), which returns the response res.
Do(res) ==
    /\ cstep = "do"
    /\ csent' = Append(csent, creq)
    /\ clog' = Append(clog, Invoked("Do", 0, Nil))
    /\ cres' = res
    /\ cstep' = "response"
    /\ ck' = 1
    /\ UNCHANGED <<now, mw, fetches, authVars, opts, cfn, cmw, creq, cret, chook,
                   cfetched, issued, nclient>>

\* Raw calls config.Client.Do(req), which returns an error.
DoFails ==
    /\ cstep = "do"
    /\ csent' = Append(csent, creq)
    /\ clog' = Append(clog, Invoked("Do", 0, errDo))
    /\ Returns([cret EXCEPT !.err = Error(Wrap("failed to perform HTTP request", errDo))])
    /\ UNCHANGED <<now, mw, fetches, authVars, opts, cfn, cmw, ck, creq, cres, chook,
                   cfetched, issued, nclient>>

\* Raw calls the Response hook of middleware ck: nil from the middlewares
\* of this package, e from a middleware of the user's.  After the last one
\* Raw returns the response, and a call of Raw is over.
ResponseHook(e) ==
    LET m == cmw[ck]
        hookErr == IF m.kind = "user" THEN e ELSE Nil
        after == AfterResponseHook(hookErr, ck, Len(cmw))
    IN  /\ cstep = "response"
        /\ clog' = Append(clog, Invoked("Response", ck, hookErr))
        /\ ck' = after.k
        /\ cstep' = IF after.step = "raw returned" /\ cfn = "Raw" THEN "returned"
                    ELSE after.step
        /\ cret' = [cret EXCEPT !.err = after.err]
        /\ UNCHANGED <<now, mw, fetches, authVars, opts, cfn, cmw, creq, csent, cres,
                       chook, cfetched, issued, nclient>>

\* Get and doRequestResponse after Raw has returned the response: Get
\* returns ok = false and no error on a 404 without reading the body;
\* otherwise decodeResponse decodes the response and closes its body.
Decode ==
    LET Decoded(d) ==
            Returns([response |-> d.response,
                     ok |-> cfn = "Get" /\ d.err = NoError,
                     err |-> d.err])
    IN
    /\ cstep = "raw returned"
    /\ IF cfn = "Get" /\ cres.status = 404
       THEN /\ Returns(NoReturn)
            /\ UNCHANGED cres
       ELSE /\ Decoded(decodeResponse(cres))
            /\ cres' = [cres EXCEPT !.closed = TRUE]
    /\ UNCHANGED <<now, mw, fetches, authVars, opts, cfn, cmw, ck, creq, csent, chook,
                   cfetched, issued, nclient, clog>>

ClientNext ==
    \/ \E fn \in {"Get", "Post", "Put", "Raw"}, pre \in {"ok", "marshal", "request"} :
           Begin(fn, pre)
    \/ \E ret \in ClientFetchResults, e \in {Nil, errHook} : RequestHook(ret, e)
    \/ \E res \in Responses : Do(res)
    \/ DoFails
    \/ \E e \in {Nil, errHook} : ResponseHook(e)
    \/ Decode
    \/ Tick

ClientSpec == ClientInit /\ [][ClientNext]_vars

(***************************************************************************)
(* Properties of AuthMiddleware.Request                                    *)
(***************************************************************************)

\* Caller p's call leaves m.m.Lock() in this step: it evaluates the
\* condition on the cached fields.
Checks(p) == pc[p] = "lock" /\ pc'[p] # "lock"

\* The cached pair of instance i is a token together with its own exp claim.
Matching(i) ==
    LET Is(expiry) == expiry.err = Nil /\ mw[i].expires = expiry.expires
    IN  mw[i].token # <<>> /\ Is(getExpiry(mw[i].token))

\* C1: once a token whose exp lies beyond now + MinRemaining has been
\* fetched and cached, a Request call that evaluates the condition while exp
\* is still beyond now + MinRemaining invokes TokenFetcher zero times,
\* leaves the cache alone and sets Authorization to "Bearer " + that token.
C1_FreshTokenReused ==
    [][\A p \in Callers :
          (Checks(p) /\ Matching(on[p]) /\ mw[on[p]].expires > now + MinRemaining)
              => /\ fetches' = fetches
                 /\ mw' = mw
                 /\ pc'[p] = "done"
                 /\ err'[p] = Nil
                 /\ req'[p]["Authorization"] = <<Bearer \o mw[on[p]].token>>]_vars

\* Two calls have returned on one instance, the token the first fetched is
\* still fresh beyond the margin, and the fetch count is 1.
C1_Witness ==
    \E i \in Instances, p \in Callers :
        /\ ncalls >= 2
        /\ \A q \in Callers : pc[q] \in {"idle", "done"}
        /\ fetches[i] = 1
        /\ Matching(i)
        /\ mw[i].expires > now + MinRemaining
        /\ pc[p] = "done" /\ on[p] = i /\ got[p] = <<>> /\ err[p] = Nil
        /\ req[p]["Authorization"] = <<Bearer \o mw[i].token>>

\* C2: a Request call that finds no token, no expiry, or an expiry earlier
\* than now + MinRemaining (remaining validity below the margin, expired
\* tokens included) invokes TokenFetcher exactly once.
C2_StaleTokenRefetched ==
    [][\A p \in Callers :
          (Checks(p) /\ (\/ mw[on[p]].token = <<>>
                         \/ IsZero(mw[on[p]].expires)
                         \/ mw[on[p]].expires < now + MinRemaining))
              => /\ pc'[p] = "fetch"
                 /\ fetches'[on[p]] = fetches[on[p]] + 1]_vars

C5_FetchErrorIsReturnedAndRetried ==
    [][\A p \in Callers :
          /\ (pc[p] = "fetch" /\ pc'[p] # "fetch" /\ got'[p][1].err # Nil)
                 => /\ pc'[p] = "done"
                    /\ err'[p] # got'[p][1].err
                    /\ Wraps(err'[p], got'[p][1].err)
                    /\ req'[p] = req[p]
                    /\ mutex'[on[p]] = NoOne
          /\ (Checks(p) /\ Wraps(last[on[p]], errFetch))
                 => /\ pc'[p] = "fetch"
                    /\ fetches'[on[p]] = fetches[on[p]] + 1]_vars

\* After a call that failed on a fetch error, the next call is fetching.
C5_Witness ==
    \E p \in Callers :
        /\ pc[p] = "fetch"
        /\ Wraps(last[on[p]], errFetch)
        /\ \E q \in Callers : Wraps(err[q], errFetch) /\ req[q] = NoHeader

\* The callers of instance i that hold its lock: TokenFetcher is running,
\* or token is written and expires not yet.
Inside(i) == {p \in Callers : on[p] = i /\ pc[p] \in {"fetch", "expiry"}}

\* C7: at most one TokenFetcher invocation is in progress per instance, at
\* most one call is between its check and its return, and a call evaluates
\* the condition or sets the header only while no other call on the
\* instance is there: it never sees token written and expires not yet.
C7_RequestsAreSerialized ==
    /\ [](\A i \in Instances :
             /\ Cardinality(Inside(i)) <= 1
             /\ \A p \in Inside(i) : mutex[i] = p)
    /\ [][\A p \in Callers :
             (Checks(p) \/ (pc[p] = "expiry" /\ pc'[p] = "done"))
                 => Inside(on[p]) \subseteq {p}]_vars

\* One caller has written token and not yet expires, and another is
\* blocked in Lock.
C7_Witness ==
    \E p, q \in Callers :
        /\ p # q /\ on[p] = on[q]
        /\ pc[p] = "expiry" /\ pc[q] = "lock"
        /\ ~IsZero(mw[on[p]].expires)
        /\ ~Matching(on[p])

\* The token a fetch result carries is well formed and fresh beyond the
\* margin now.
FreshResult(ret) ==
    LET Fresh(expiry) == expiry.err = Nil /\ expiry.expires > now + MinRemaining
    IN  ret.err = Nil /\ Fresh(getExpiry(TrimPrefix(ret.token, Bearer)))

\* Every caller's call on instance i has returned; p's call made a
\* fetch, every other caller's call was blocked in Lock behind that fetch,
\* and the token fetched is fresh beyond the margin.
Raced(i, p) ==
    /\ \A q \in Callers : pc[q] = "done" /\ on[q] = i
    /\ got[p] # <<>>
    /\ \A q \in Callers \ {p} : waited[q] = turn[p]
    /\ \A q \in Callers : \A k \in 1..Len(got[q]) : FreshResult(got[q][k])

\* C8: when calls race on one instance and TokenFetcher returns a token
\* fresh beyond the margin, the calls that waited for the lock do not fetch:
\* TokenFetcher was invoked once by all of them together, and every caller
\* has the same token attached.
C8_RacingCallsFetchOnce ==
    \A i \in Instances, p \in Callers :
        Raced(i, p) =>
            /\ \A q \in Callers \ {p} : got[q] = <<>>
            /\ Len(got[p]) = 1
            /\ \A q \in Callers :
                   /\ err[q] = Nil
                   /\ req[q]["Authorization"] = <<Bearer \o mw[i].token>>

\* Two calls raced on an empty cache and both returned.
C8_Witness ==
    \E i \in Instances, p \in Callers :
        Raced(i, p) /\ ncalls = Cardinality(Callers) /\ fetches[i] = 1

\* The characters of base64.RawURLEncoding.
IsBase64URL(s) ==
    /\ \A k \in 1..Len(s) : IndexOf(encodeURL, s[k]) > 0
    /\ Len(s) % 4 # 1

\* s does not split into three segments at its dots, or its middle segment
\* is no unpadded URL-safe base64, or what that decodes to is no JSON.
Malformed(s) ==
    \/ Cardinality({k \in 1..Len(s) : s[k] = "."}) # 2
    \/ ~IsBase64URL(Split(s, ".")[2])
    \/ ~ScanDocument(String(DecodeString(Split(s, ".")[2]).bytes)).ok

\* C10: when TokenFetcher returns, without an error, a string that is
\* malformed, Request returns an error and leaves the request's header as
\* it was.
C10_MalformedTokenRejected ==
    [][\A p \in Callers :
          (pc[p] = "expiry" /\ Malformed(got[p][1].token))
              => (pc'[p] = "expiry"
                    \/ (pc'[p] = "done" /\ err'[p] # Nil /\ req'[p] = req[p]))]_vars

\* One call has failed on a string with a segment too many and another on
\* claims that are base64 and not JSON; neither request has a header.
C10_Witness ==
    \E p, q \in Callers :
        /\ pc[p] = "done" /\ pc[q] = "done"
        /\ Len(got[p]) = 1 /\ Len(got[q]) = 1
        /\ got[p][1].err = Nil /\ got[q][1].err = Nil
        /\ Cardinality({k \in 1..Len(got[p][1].token) : got[p][1].token[k] = "."}) = 3
        /\ Cardinality({k \in 1..Len(got[q][1].token) : got[q][1].token[k] = "."}) = 2
        /\ IsBase64URL(Split(got[q][1].token, ".")[2])
        /\ Malformed(got[q][1].token)
        /\ err[p] = <<"failed to get expiry", "unexpected token format">>
        /\ Head(err[q]) = "failed to get expiry"
        /\ req[p] = NoHeader /\ req[q] = NoHeader

(***************************************************************************)
(* Properties of the client's calls                                        *)
(***************************************************************************)

\* The Request hook of an AuthMiddleware is about to run.
AtAuthHook == cstep = "request" /\ cmw[ck].kind = "AuthMiddleware"

\* C6: the calls of a client configured with one WithAuthMiddleware option
\* use one credential cache: while the token that an earlier call fetched
\* is fresh (it expires later than MinRemaining from now), the Request hook
\* of a later call invokes no TokenFetcher.
C6_LaterCallReusesFetchedToken ==
    [][(AtAuthHook /\ issued.token # <<>> /\ issued.expires > now + MinRemaining)
           => cfetched' = cfetched]_vars

\* C9: when a Request hook has returned an error, of the AuthMiddleware or
\* of another middleware, the call has returned with that error wrapped as
\* "middleware failed to modify request", with no response, and Doer.Do
\* was not invoked for its request.
C9_FailedRequestHookSendsNothing ==
    chook # Nil =>
        /\ cstep = "returned"
        /\ cret.err.chain = Wrap("middleware failed to modify request", chook)
        /\ Wraps(cret.err.chain, chook)
        /\ cret.response = <<>> /\ ~cret.ok
        /\ csent = <<>>
        /\ cres = NoResponse

\* A Get whose AuthMiddleware could not fetch a token has returned, after
\* an earlier call of the client was sent.
C9_Witness ==
    /\ cfn = "Get"
    /\ cstep = "returned"
    /\ Wraps(chook, errFetch)
    /\ cmw[ck].kind = "AuthMiddleware"
    /\ csent = <<>>
    /\ nclient = 2

\* The claims of three-segment token s are a JSON object in which exp is
\* not present, or is not a number.
LacksNumericExp(s) ==
    LET NoExp(doc) ==
            /\ doc.ok
            /\ doc.val.kind = "object"
            /\ \A k \in 1..Len(doc.val.members) :
                   doc.val.members[k].key = <<"e", "x", "p">>
                       => doc.val.members[k].val.kind # "number"
        Claims(b) == ~b.err /\ NoExp(ScanDocument(String(b.bytes)))
    IN  /\ Cardinality({k \in 1..Len(s) : s[k] = "."}) = 2
        /\ Claims(DecodeString(Split(s, ".")[2]))

\* C11: when TokenFetcher returns a three-segment token whose claims are a
\* JSON object in which exp is not present or not numeric, Request returns
\* an error, stores no expiry and leaves the request's header as it was.
C11_TokenWithoutExpRejected ==
    [][\A p \in Callers :
          (pc[p] = "expiry" /\ pc'[p] = "done" /\ LacksNumericExp(got[p][1].token))
              => /\ err'[p] # Nil
                 /\ IsZero(mw'[on[p]].expires)
                 /\ req'[p] = req[p]]_vars

\* Caller p's call returns nil in this step, having fetched a token.
Attaches(p) == pc[p] = "expiry" /\ pc'[p] = "done" /\ err'[p] = Nil

\* C12 as claimed: after a fetch that leads to a successful attachment the
\* header is "Bearer " followed by the stored token, which is the fetched
\* string without its "Bearer " prefix and does not itself start with
\* "Bearer ": the header carries the prefix exactly once.
C12_HeaderHasOneBearerPrefix ==
    [][\A p \in Callers :
          Attaches(p) =>
              /\ req'[p]["Authorization"] = <<Bearer \o mw'[on[p]].token>>
              /\ ~HasPrefix(mw'[on[p]].token, Bearer)]_vars

\* C12, amended: after a fetch that leads to a successful attachment the
\* header is "Bearer " followed by the stored token, and the stored token is
\* the fetched string with one leading "Bearer " removed if it has one.
C12_HeaderIsBearerAndTokenLessOnePrefix ==
    [][\A p \in Callers :
          Attaches(p) =>
              /\ req'[p]["Authorization"] = <<Bearer \o mw'[on[p]].token>>
              /\ \/ got[p][1].token = Bearer \o mw'[on[p]].token
                 \/ /\ got[p][1].token = mw'[on[p]].token
                    /\ ~HasPrefix(got[p][1].token, Bearer)]_vars

\* A fetched "Bearer " + token has been stored as the token and attached as
\* "Bearer " + token.
C12_Witness ==
    \E p \in Callers :
        /\ pc[p] = "done" /\ err[p] = Nil
        /\ got[p] = <<[token |-> Bearer \o JWT(claimsJSON(3200)), err |-> Nil]>>
        /\ mw[on[p]].token = JWT(claimsJSON(3200))
        /\ req[p]["Authorization"] = <<Bearer \o JWT(claimsJSON(3200))>>

\* The middleware an option registers (the same for each WithAuthMiddleware,
\* whatever instance it allocates).
Registers(o) ==
    CASE o.opt = "WithAuthMiddleware" -> "AuthMiddleware"
      [] o.opt = "WithRequestHeader" -> "requestHeaderMiddleware"
      [] OTHER -> "user"

\* The invocations of a call that runs to the end with n middlewares: the
\* Request hooks 1..n, Doer.Do, the Response hooks 1..n.
InOrder(n) ==
    [j \in 1..(2 * n + 1) |->
        IF j <= n THEN [hook |-> "Request", k |-> j]
        ELSE IF j = n + 1 THEN [hook |-> "Do", k |-> 0]
        ELSE [hook |-> "Response", k |-> j - n - 1]]

\* C13: the middlewares of a call are the Content-Type middleware and then
\* those of the options in their order; the call invokes the Request hooks
\* in that order, then Doer.Do, then the Response hooks in that order, each
\* only after everything before it returned nil; so Doer.Do runs after all
\* Request hooks, the Response hooks run after Doer.Do returned a response,
\* and a hook that returns an error is the last thing the call invokes.
C13_HooksRunInOrder ==
    clog # <<>> =>
        /\ Len(cmw) = Len(opts) + 1
        /\ \A k \in 1..Len(opts) : cmw[k + 1].kind = Registers(opts[k])
        /\ Len(clog) <= 2 * Len(cmw) + 1
        /\ \A j \in 1..Len(clog) :
               /\ clog[j].hook = InOrder(Len(cmw))[j].hook
               /\ clog[j].k = InOrder(Len(cmw))[j].k
               /\ clog[j].err # Nil => (j = Len(clog) /\ cstep = "returned")
               /\ clog[j].hook = "Response" => cres # NoResponse

\* A Get with three middlewares has invoked all their Request hooks, Doer.Do
\* and all their Response hooks, the last of which returned an error.
C13_Witness ==
    /\ cfn = "Get"
    /\ Len(cmw) = 3
    /\ Len(clog) = 7
    /\ clog[7] = Invoked("Response", 3, errHook)
    /\ cstep = "returned"

\* Raw has returned the response to Get, Post or Put without an error, and
\* the call has returned.
RawSucceeded ==
    /\ cstep = "returned"
    /\ Len(clog) = 2 * Len(cmw) + 1
    /\ clog[Len(clog)].err = Nil

\* C14: when Raw has returned a response to Get, Get returns the zero
\* value, ok = false and no error on status 404; ok = true only with no
\* error, a status in 200..299 and the body decoded; and ok = false with an
\* InvalidStatusError carrying the status on every other status outside
\* 200..299.
C14_GetResults ==
    (cfn = "Get" /\ RawSucceeded) =>
        /\ cres.status = 404 => cret = NoReturn
        /\ cret.ok =>
               /\ cret.err = NoError
               /\ cres.status \in 200..299
               /\ ~cres.readErr /\ Decodes(cres.body)
               /\ cret.response = cres.body
        /\ (cres.status \notin 200..299 /\ cres.status # 404) =>
               /\ ~cret.ok
               /\ cret.err.chain = <<"InvalidStatusError">>
               /\ cret.err.status = cres.status

\* One Get has returned on a 404.
C14_Witness ==
    /\ cfn = "Get" /\ RawSucceeded
    /\ cres.status = 404
    /\ cret = NoReturn

\* C15 as claimed: when Raw has returned a response to Post or Put, they
\* return an InvalidStatusError with the status and the full body on every
\* status outside 200..299, an InvalidJSONError on a status in 200..299
\* with a body that does not decode, and otherwise the decoded response and
\* no error.
C15_PostPutResults ==
    (cfn \in {"Post", "Put"} /\ RawSucceeded) =>
        IF cres.status \notin 200..299
        THEN cret.response = <<>> /\ cret.err = InvalidStatusError(cres.status, cres.body)
        ELSE IF ~Decodes(cres.body)
        THEN cret.response = <<>> /\ cret.err = InvalidJSONError(cres.status, cres.body)
        ELSE cret.response = cres.body /\ cret.err = NoError

\* C15, amended: the same for a response whose body is read to its end;
\* when reading the body fails, the InvalidStatusError of a status outside
\* 200..299 carries the status and the part of the body read until then,
\* and on a status in 200..299 the error returned is that of the read,
\* neither an InvalidStatusError nor an InvalidJSONError.
C15_PostPutResultsOfReadableBody ==
    (cfn \in {"Post", "Put"} /\ RawSucceeded) =>
        /\ cret.ok = FALSE
        /\ IF cres.status \notin 200..299
           THEN /\ cret.response = <<>>
                /\ cret.err.chain = <<"InvalidStatusError">>
                /\ cret.err.status = cres.status
                /\ IF cres.readErr
                   THEN /\ Len(cret.err.body) < Len(cres.body)
                        /\ cret.err.body = SubSeq(cres.body, 1, Len(cret.err.body))
                   ELSE cret.err.body = cres.body
           ELSE IF cres.readErr
           THEN /\ cret.response = <<>>
                /\ Head(cret.err.chain) = "failed to read response body"
           ELSE IF ~Decodes(cres.body)
           THEN cret.response = <<>> /\ cret.err = InvalidJSONError(cres.status, cres.body)
           ELSE cret.response = cres.body /\ cret.err = NoError

\* A Post has returned an InvalidStatusError on a 404, and it is the second
\* call of the client.
C15_Witness ==
    /\ cfn = "Post" /\ RawSucceeded
    /\ cres.status = 404
    /\ cret.err = InvalidStatusError(404, cres.body)
    /\ nclient = 2

\* C16: a step of a Request call on one instance leaves the token, the
\* expiry, the lock and the fetch count of every other instance as they
\* were; a call waiting for the lock of its instance can take it when that
\* lock is free, whoever holds the lock of another instance; and whether it
\* then fetches depends on its own instance's token and expiry alone.
C16_InstancesDoNotInterfere ==
    /\ [](\A p \in Callers :
             (pc[p] = "lock" /\ mutex[on[p]] = NoOne) => ENABLED Lock(p))
    /\ [][\A p \in Callers :
             /\ pc'[p] # pc[p] =>
                    \A j \in DOMAIN mw \ {on'[p]} :
                        /\ mw'[j] = mw[j]
                        /\ fetches'[j] = fetches[j]
                        /\ mutex'[j] = mutex[j]
                        /\ last'[j] = last[j]
             /\ Checks(p) =>
                    (pc'[p] = "fetch"
                        <=> NeedsFetch(mw[on[p]].token, mw[on[p]].expires, now))]_vars

\* One caller holds the lock of A for its second fetch there, after a call
\* on B has fetched and cached a token and a call on A has failed.
C16_Witness ==
    /\ DOMAIN mw = Pair
    /\ mutex["A"] # NoOne /\ fetches["A"] = 2
    /\ mutex["B"] = NoOne /\ fetches["B"] = 1
    /\ Matching("B") /\ last["B"] = Nil
    /\ last["A"] # Nil

\* C17: a Request call invokes TokenFetcher at most once and attaches the
\* token it fetched without a second look at its expiry; and when the token
\* one call fetched and cached had already expired, the next call fetches
\* again, so that the two calls make two fetches and the header carries
\* the second token.
C17_ExpiredTokenFetchedAgain ==
    /\ [](\A p \in Callers : Len(got[p]) <= 1)
    /\ [][\A p \in Callers :
             /\ Attaches(p) =>
                    req'[p]["Authorization"] = <<Bearer \o mw'[on[p]].token>>
             /\ (Checks(p) /\ Matching(on[p]) /\ mw[on[p]].expires < now) =>
                    /\ pc'[p] = "fetch"
                    /\ fetches'[on[p]] = fetches[on[p]] + 1]_vars

\* Caller p's call returns an error in this step.
Fails(p) == pc[p] \in {"fetch", "expiry"} /\ pc'[p] = "done" /\ err'[p] # Nil

\* C18: a call whose refresh fails returns the error and leaves the
\* request's header as it was, whatever was cached; and a call on an
\* instance whose last call failed attaches nothing that is cached: it
\* fetches.
C18_FailedRefreshFailsClosed ==
    [][\A p \in Callers :
          /\ Fails(p) => (req'[p] = req[p] /\ last'[on[p]] = err'[p])
          /\ (Checks(p) /\ last[on[p]] # Nil) =>
                 (pc'[p] = "fetch" /\ req'[p] = req[p])]_vars

\* After a token was fetched and cached and, when it was stale, the next
\* fetch failed, a third call fetches.
C18_Witness ==
    \E p \in Callers, i \in Instances :
        /\ pc[p] = "fetch" /\ on[p] = i
        /\ fetches[i] = 3
        /\ Wraps(last[i], errFetch)
        /\ mw[i].token = <<>>
        /\ ~IsZero(mw[i].expires)

\* C19: the mutex of an instance is held only by a caller between its
\* m.m.Lock() and its return, so every return path releases it; and, each
\* TokenFetcher invocation returning, a caller waiting for the mutex
\* acquires it and every call returns.
C19_EveryCallReturns ==
    /\ [](\A i \in Instances :
             mutex[i] # NoOne =>
                 (pc[mutex[i]] \in {"fetch", "expiry"} /\ on[mutex[i]] = i))
    /\ \A p \in Callers : (pc[p] = "lock") ~> (pc[p] \in {"fetch", "done"})
    /\ \A p \in Callers : (pc[p] \in {"lock", "fetch", "expiry"}) ~> (pc[p] = "done")

\* A call that waited behind a fetch has returned, and the call that made
\* that fetch returned an error.
C19_Witness ==
    \E p \in Callers, q \in Callers :
        /\ p # q
        /\ pc[q] = "done"
        /\ waited[q] > 0
        /\ turn[p] = waited[q]
        /\ pc[p] = "done"
        /\ err[p] # Nil

\* The Response hook of an AuthMiddleware is about to run.
AtAuthResponse == cstep = "response" /\ cmw[ck].kind = "AuthMiddleware"

\* C20: the Request hook of an AuthMiddleware leaves every header of the
\* request but Authorization as it was; when it returns nil, Authorization
\* has one value, "Bearer " and the instance's token, whatever values it
\* had, and when it returns an error, or has no TokenFetcher, the header is
\* as it was.  The
\* Response hook returns nil and leaves the response, the request and the
\* instance's token and expires as they were.
C20_OnlyAuthorizationReplaced ==
    [][/\ (AtAuthHook /\ clog' # clog) =>
              /\ \A key \in HeaderKeys \ {"Authorization"} : creq'[key] = creq[key]
              /\ IF chook' = Nil /\ mw[cmw[ck].inst].TokenFetcher # NilFetcher
                 THEN creq'["Authorization"] = <<Bearer \o mw'[cmw[ck].inst].token>>
                 ELSE creq' = creq
       /\ (AtAuthResponse /\ clog' # clog) =>
              /\ clog' = Append(clog, Invoked("Response", ck, Nil))
              /\ cstep' # "returned" \/ cfn = "Raw"
              /\ cres' = cres
              /\ creq' = creq
              /\ mw' = mw]_vars

\* The Request hook of an AuthMiddleware has set the Authorization header
\* of a request that had a Content-Type header and another Authorization
\* value, and its Response hook has run.
C20_Witness ==
    /\ Len(clog) > 0
    /\ Len(cmw) = 3
    /\ cmw[2] = requestHeaderMiddleware("Authorization", abc)
    /\ cmw[3].kind = "AuthMiddleware"
    /\ clog[Len(clog)] = Invoked("Response", 3, Nil)
    /\ \E n \in 1..Len(clog) : clog[n] = Invoked("Request", 3, Nil)
    /\ creq["Content-Type"] = <<applicationJSON>>
    /\ creq["Authorization"] = <<Bearer \o mw[cmw[3].inst].token>>
    /\ creq["Authorization"] # <<abc>>

\* Middleware m of the configuration sets header key in its Request hook:
\* a requestHeaderMiddleware of that key, or an AuthMiddleware with a
\* TokenFetcher for Authorization.
SetsHeader(m, key) ==
    \/ m.kind = "requestHeaderMiddleware" /\ m.key = key
    \/ /\ m.kind = "AuthMiddleware"
       /\ key = "Authorization"
       /\ mw[m.inst].TokenFetcher # NilFetcher

\* The value it sets.
ValueSet(m) ==
    IF m.kind = "AuthMiddleware" THEN Bearer \o mw[m.inst].token ELSE m.value

\* The last middleware registered that sets header key, 0 when none does.
LastSetting(key) ==
    LET setting == {k \in 1..Len(cmw) : SetsHeader(cmw[k], key)}
    IN  IF setting = {} THEN 0 ELSE CHOOSE k \in setting : \A j \in setting : j <= k

\* C21: a request passed to Doer.Do carries, for each header, the one value
\* of the last middleware registered that sets it, and no value when none
\* does; so its Content-Type is application/json unless a middleware of the
\* options sets Content-Type.
C21_LastRegisteredValueIsSent ==
    \A n \in 1..Len(csent) :
        /\ \A key \in HeaderKeys :
               csent[n][key] = IF LastSetting(key) = 0 THEN <<>>
                               ELSE <<ValueSet(cmw[LastSetting(key)])>>
        /\ (\A k \in 2..Len(cmw) : ~SetsHeader(cmw[k], "Content-Type")) =>
               csent[n]["Content-Type"] = <<applicationJSON>>

\* A request was sent whose Authorization is the value of WithAuthorization
\* registered after an AuthMiddleware that had set its token.
C21_Witness ==
    /\ Len(csent) = 1
    /\ Len(cmw) = 3
    /\ cmw[2].kind = "AuthMiddleware"
    /\ mw[cmw[2].inst].token # <<>>
    /\ cmw[3] = requestHeaderMiddleware("Authorization", abc)
    /\ csent[1]["Authorization"] = <<abc>>
    /\ csent[1]["Content-Type"] = <<applicationJSON>>

\* Caller p calls Request in this step, on an instance whose TokenFetcher
\* is nil.
CallsNil(p) ==
    /\ pc[p] \in {"idle", "done"}
    /\ ncalls' = ncalls + 1
    /\ pc'[p] # "idle"
    /\ mw[on'[p]].TokenFetcher = NilFetcher
    /\ \A q \in Callers \ {p} : pc'[q] = pc[q]

\* C22: a call of Request on an instance with a nil TokenFetcher returns
\* nil in one step, whoever holds what: it does not wait for or take the
\* instance's mutex, does not invoke anything, leaves token and expires,
\* and leaves the request's header as the caller passed it.  The mutex of
\* such an instance is never held and its fields never change.
C22_NilFetcherDoesNothing ==
    /\ [](\A i \in Pair :
             mw[i].TokenFetcher = NilFetcher =>
                 /\ mutex[i] = NoOne
                 /\ fetches[i] = 0
                 /\ mw[i] = newAuthMiddleware(NilFetcher)
                 /\ \A p \in Callers : on[p] = i => pc[p] \in {"idle", "done"})
    /\ [][\A p \in Callers :
             CallsNil(p) =>
                 /\ pc'[p] = "done"
                 /\ err'[p] = Nil
                 /\ req'[p] \in {req[p], NoHeader}
                 /\ mw' = mw
                 /\ mutex' = mutex
                 /\ fetches' = fetches]_vars

\* A call on the instance with the nil TokenFetcher has returned, with a
\* new request that has no Authorization header, while another caller holds
\* the mutex of the other instance.
C22_Witness ==
    \E p \in Callers, q \in Callers :
        /\ p # q
        /\ on[p] = "B" /\ pc[p] = "done" /\ err[p] = Nil
        /\ mw["B"].TokenFetcher = NilFetcher
        /\ req[p]["Authorization"] = <<>>
        /\ mutex["A"] = q

\* C23: when Get, Post or Put has returned, the response it obtained from
\* Doer.Do, if any, has its body closed.
C23_BodyClosedOnReturn ==
    (cstep = "returned" /\ cfn \in {"Get", "Post", "Put"} /\ cres # NoResponse)
        => cres.closed

====
